---- MODULE Spec2Model ----
(***************************************************************************)
(* Model of nest-register-user-app: the registration flow                  *)
(* (UsersService.register), the authentication flow (AuthService.login)    *)
(* and the request validation pipeline (ValidationPipe over CreateUserDto  *)
(* and LoginDto, shaped by ValidationExceptionFilter).                     *)
(*                                                                         *)
(* Strings are sequences of one-character strings, so that length and      *)
(* character-class rules are computed and a hash can be compared with a    *)
(* plaintext.                                                              *)
(*                                                                         *)
(* Two specifications share the variables:                                 *)
(*   Spec            the flows, entered at the service methods with a DTO  *)
(*   SpecValidation  the validation pipeline applied to a request body     *)
(***************************************************************************)
EXTENDS Integers, Sequences, FiniteSets, TLC

VARIABLES store, nextId, rpc, rdto, rout, rcause,
          lpc, ldto, luser, lout, lwhy,
          vpc, vdto, vbody, vresp,
          now, ltoken, presp, pinfo,
          fexc, fresp

flowVars == <<store, nextId, rpc, rdto, rout, rcause, lpc, ldto, luser, lout, lwhy>>
valVars  == <<vpc, vdto, vbody, vresp>>
tokVars  == <<now, ltoken, presp, pinfo>>
filVars  == <<fexc, fresp>>
vars     == <<store, nextId, rpc, rdto, rout, rcause, lpc, ldto, luser, lout, lwhy,
              vpc, vdto, vbody, vresp, now, ltoken, presp, pinfo, fexc, fresp>>

(***************************************************************************)
(* Bounds                                                                  *)
(***************************************************************************)
\* number of register calls in a behaviour
NumReg == 2
\* number of login calls in a behaviour
NumLogin == 2

RegReqs == 1..NumReg
LoginReqs == 1..NumLogin

(***************************************************************************)
(* Character classes, as the regular expressions of CreateUserDto and      *)
(* StrongPasswordConstraint spell them                                     *)
(***************************************************************************)
Letters ==
  {"a","b","c","d","e","f","g","h","i","j","k","l","m","n","o","p","q","r","s","t",
   "u","v","w","x","y","z",
   "A","B","C","D","E","F","G","H","I","J","K","L","M","N","O","P","Q","R","S","T",
   "U","V","W","X","Y","Z"}

Digits == {"0","1","2","3","4","5","6","7","8","9"}

Specials ==
  {"!","@","#","$","%","^","&","*","(",")","_","+","-","=","[","]","{","}",";","'",
   ":","\"","\\","|",",",".","<",">","/","?"}

HasCharIn(s, cls) == \E i \in 1..Len(s) : s[i] \in cls

MinNameLen == 3
MinPasswordLen == 8

NameOK(s) == Len(s) >= MinNameLen

PolicyOK(s) ==
  /\ Len(s) >= MinPasswordLen
  /\ HasCharIn(s, Letters)
  /\ HasCharIn(s, Digits)
  /\ HasCharIn(s, Specials)

\* positions of "@" in s
AtPositions(s) == {i \in 1..Len(s) : s[i] = "@"}

\* validator.js isEmail, restricted to the alphabet used here: exactly one "@",
\* a non-empty local part, a domain of dot-separated non-empty labels whose last
\* label is at least two letters
IsEmailSyntax(s) ==
  /\ Cardinality(AtPositions(s)) = 1
  /\ LET at == CHOOSE i \in AtPositions(s) : TRUE
         dots == {i \in (at+1)..Len(s) : s[i] = "."}
     IN /\ at > 1
        /\ \A i \in 1..(at-1) : s[i] \in Letters \cup Digits \cup {".", "-", "_", "+"}
        /\ dots # {}
        /\ \A i \in (at+1)..Len(s) : s[i] \in Letters \cup Digits \cup {".", "-"}
        /\ \A i \in dots : i > at + 1 /\ i < Len(s) /\ (i+1) \notin dots
        /\ LET last == CHOOSE i \in dots : \A j \in dots : j <= i
           IN /\ Len(s) - last >= 2
              /\ \A i \in (last+1)..Len(s) : s[i] \in Letters

(***************************************************************************)
(* Inputs of the flows                                                     *)
(***************************************************************************)
NameTest == <<"T","e","s","t">>
NameT == <<"T">>
FlowNames == {NameTest, NameT}

EmailA == <<"a","@","b",".","c","d">>
EmailB == <<"c","@","d",".","e","f">>
FlowEmails == {EmailA, EmailB}

PwStrong == <<"P","a","s","s","w","0","r","d","!">>
PwWeak == <<"a","b","c">>
FlowPasswords == {PwStrong, PwWeak}

\* the DTOs handed to register: two for the same email that differ in name and
\* password, one for another email
RegisterDtos ==
  {[name |-> NameTest, email |-> EmailA, password |-> PwStrong],
   [name |-> NameT, email |-> EmailA, password |-> PwWeak],
   [name |-> NameTest, email |-> EmailB, password |-> PwStrong]}
\* the credentials handed to login
LoginDtos ==
  {[email |-> EmailA, password |-> PwStrong],
   [email |-> EmailA, password |-> PwWeak],
   [email |-> EmailB, password |-> PwStrong]}

NoRegisterDto == [name |-> <<>>, email |-> <<>>, password |-> <<>>]
NoLoginDto == [email |-> <<>>, password |-> <<>>]

ValidRegisterDto(d) == NameOK(d.name) /\ IsEmailSyntax(d.email) /\ PolicyOK(d.password)

(***************************************************************************)
(* Password hashing (bcrypt)                                               *)
(***************************************************************************)
Salts == {"x", "y"}
HashPrefix == <<"$","2","b","$">>

\* the pre-save hashing of the user schema: a salted one-way hash, here the
\* version prefix, the salt and a digest that stands for the password
BcryptHash(p, salt) == HashPrefix \o <<salt>> \o p

\* bcrypt.compare(plaintext, hash)
BcryptCompare(p, h) ==
  /\ Len(h) >= Len(HashPrefix) + 1
  /\ SubSeq(h, 1, Len(HashPrefix)) = HashPrefix
  /\ SubSeq(h, Len(HashPrefix) + 2, Len(h)) = p

(***************************************************************************)
(* The credential store (the mongoose User model)                          *)
(***************************************************************************)
NoUser == [id |-> 0, name |-> <<>>, email |-> <<>>, password |-> <<>>]

\* userModel.findOne({ email }): a stored account with that email, or none
FindOne(s, email) ==
  IF \E a \in s : a.email = email
    THEN CHOOSE a \in s : a.email = email
    ELSE NoUser

StoreAccepts_NoUniqueIndex(s, email) == TRUE

\* the uniqueness constraint of the store on email: create fails with
\* DuplicateKey when the email is already present
StoreAccepts(s, email) == ~ \E a \in s : a.email = email

\* errors a store call can raise
DuplicateKeyError == [cls |-> "MongoServerError", message |-> "E11000 duplicate key error"]
StoreFailures ==
  {[cls |-> "MongoNetworkError", message |-> "connect ECONNREFUSED"],
   [cls |-> "MongooseError", message |-> "buffering timed out"]}

(***************************************************************************)
(* Outcomes                                                                *)
(***************************************************************************)
NoClaims == [sub |-> 0, email |-> <<>>]
NoOutcome == [kind |-> "none", status |-> 0, message |-> "", claims |-> NoClaims]

RegisterSuccess ==
  [kind |-> "Success", status |-> 201, message |-> "User registered successfully",
   claims |-> NoClaims]

\* new ConflictException('Email already registered')
ConflictException == [cls |-> "ConflictException", message |-> "Email already registered"]

\* the response of a thrown HttpException
HttpOutcome(cls, status, message) ==
  [kind |-> cls, status |-> status, message |-> message, claims |-> NoClaims]

DuplicateEmail == HttpOutcome("ConflictException", 409, "Email already registered")
RegistrationFailed == HttpOutcome("BadRequestException", 400, "Could not register user")

RegisterCatch_NoRethrow(error) ==
  HttpOutcome("BadRequestException", 400, "Could not register user")

RegisterCatch_Leaky(error) ==
  IF error.cls = "ConflictException"
    THEN HttpOutcome("ConflictException", 409, error.message)
    ELSE HttpOutcome("BadRequestException", 400, error.message)

\* the catch block of register: a ConflictException is rethrown, anything else
\* becomes BadRequestException('Could not register user')
RegisterCatch(error) ==
  IF error.cls = "ConflictException"
    THEN HttpOutcome("ConflictException", 409, error.message)
    ELSE HttpOutcome("BadRequestException", 400, "Could not register user")

NewUserDoc_NoHash(dto, id, salt) ==
  [id |-> id, name |-> dto.name, email |-> dto.email, password |-> dto.password]

\* new this.userModel(createUserDto), as save() persists it: the id is assigned
\* and the password is hashed before the insert
NewUserDoc(dto, id, salt) ==
  [id |-> id, name |-> dto.name, email |-> dto.email,
   password |-> BcryptHash(dto.password, salt)]


(***************************************************************************)
(* UsersService.register, one step per store call                          *)
(***************************************************************************)
\* the calls are numbered in the order they start
RegStarts(r) == rpc[r] = "idle" /\ \A q \in RegReqs : q < r => rpc[q] # "idle"

RegUnchanged ==
  UNCHANGED <<lpc, ldto, luser, lout, lwhy, vpc, vdto, vbody, vresp,
              now, ltoken, presp, pinfo, fexc, fresp>>

\* findOne itself fails: caught, generic failure
RegisterFindFails(r, dto, e) ==
  /\ RegStarts(r)
  /\ rpc' = [rpc EXCEPT ![r] = "done"]
  /\ rdto' = [rdto EXCEPT ![r] = dto]
  /\ rout' = [rout EXCEPT ![r] = RegisterCatch(e)]
  /\ rcause' = [rcause EXCEPT ![r] = "findfail"]
  /\ UNCHANGED <<store, nextId>>
  /\ RegUnchanged

\* findOne finds an account: ConflictException, rethrown by the catch block
RegisterConflict(r, dto) ==
  /\ RegStarts(r)
  /\ FindOne(store, dto.email) # NoUser
  /\ rpc' = [rpc EXCEPT ![r] = "done"]
  /\ rdto' = [rdto EXCEPT ![r] = dto]
  /\ rout' = [rout EXCEPT ![r] = RegisterCatch(ConflictException)]
  /\ rcause' = [rcause EXCEPT ![r] = "conflict"]
  /\ UNCHANGED <<store, nextId>>
  /\ RegUnchanged

\* findOne finds nothing: the call goes on to save
RegisterPassCheck(r, dto) ==
  /\ RegStarts(r)
  /\ FindOne(store, dto.email) = NoUser
  /\ rpc' = [rpc EXCEPT ![r] = "checked"]
  /\ rdto' = [rdto EXCEPT ![r] = dto]
  /\ UNCHANGED rcause
  /\ UNCHANGED <<store, nextId, rout>>
  /\ RegUnchanged

\* save inserts the account
RegisterSaveOk(r, salt) ==
  /\ rpc[r] = "checked"
  /\ StoreAccepts(store, rdto[r].email)
  /\ store' = store \cup {NewUserDoc(rdto[r], nextId, salt)}
  /\ nextId' = nextId + 1
  /\ rpc' = [rpc EXCEPT ![r] = "done"]
  /\ rout' = [rout EXCEPT ![r] = RegisterSuccess]
  /\ rcause' = [rcause EXCEPT ![r] = "saved"]
  /\ UNCHANGED rdto
  /\ RegUnchanged

\* save is refused by the uniqueness constraint: the error is not a
\* ConflictException, so the catch block makes it the generic failure
RegisterSaveDup(r) ==
  /\ rpc[r] = "checked"
  /\ ~ StoreAccepts(store, rdto[r].email)
  /\ rpc' = [rpc EXCEPT ![r] = "done"]
  /\ rout' = [rout EXCEPT ![r] = RegisterCatch(DuplicateKeyError)]
  /\ rcause' = [rcause EXCEPT ![r] = "dupkey"]
  /\ UNCHANGED <<store, nextId, rdto>>
  /\ RegUnchanged

\* save fails for another reason
RegisterSaveFails(r, e) ==
  /\ rpc[r] = "checked"
  /\ rpc' = [rpc EXCEPT ![r] = "done"]
  /\ rout' = [rout EXCEPT ![r] = RegisterCatch(e)]
  /\ rcause' = [rcause EXCEPT ![r] = "savefail"]
  /\ UNCHANGED <<store, nextId, rdto>>
  /\ RegUnchanged

(***************************************************************************)
(* AuthService.login, one step per awaited call.  The lookup is taken to   *)
(* answer: login has no handling of a store failure.                       *)
(***************************************************************************)
\* throw new UnauthorizedException('Invalid credentials'), user not found
LoginNoUserOutcome_UserNotFound == HttpOutcome("NotFoundException", 404, "User not found")

LoginNoUserOutcome == HttpOutcome("UnauthorizedException", 401, "Invalid credentials")

\* throw new UnauthorizedException('Invalid credentials'), password mismatch
LoginBadPasswordOutcome == HttpOutcome("UnauthorizedException", 401, "Invalid credentials")

InvalidCredentials == HttpOutcome("UnauthorizedException", 401, "Invalid credentials")

IsPasswordValid_ArgsSwapped(dto, user) == BcryptCompare(user.password, dto.password)

\* bcrypt.compare(loginDto.password, user.password)
IsPasswordValid(dto, user) == BcryptCompare(dto.password, user.password)

\* the JWT payload
JwtPayload_FixedSubject(user) == [sub |-> 1, email |-> user.email]

JwtPayload(user) == [sub |-> user.id, email |-> user.email]

(***************************************************************************)
(* The token service (JwtService) and the guard of the profile routes      *)
(***************************************************************************)
\* lifetime of a token, in ticks of the clock
TokenTtl == 2

ServerKey == "server-secret"
OtherKey == "other-secret"

\* the signature: the key and the content it was computed over
Signature(key, sub, email, iat, exp) ==
  [key |-> key, sub |-> sub, email |-> email, iat |-> iat, exp |-> exp]

NoSignature == Signature("none", 0, << >>, 0, 0)

\* no Authorization header
NoToken == [sub |-> 0, email |-> << >>, iat |-> 0, exp |-> 0, sig |-> NoSignature]

\* 'Bearer invalid-token': not a JWT
MalformedToken ==
  [sub |-> 0, email |-> << >>, iat |-> 0, exp |-> 0,
   sig |-> Signature("malformed", 0, << >>, 0, 0)]

\* jwtService.sign(payload) at time t: the claims, the issue and expiry times,
\* signed with the server's key
JwtSign(payload, t) ==
  [sub |-> payload.sub, email |-> payload.email, iat |-> t, exp |-> t + TokenTtl,
   sig |-> Signature(ServerKey, payload.sub, payload.email, t, t + TokenTtl)]

\* { accessToken: this.jwtService.sign(payload) }
LoginSuccess(user) ==
  [kind |-> "AccessToken", status |-> 201, message |-> "", claims |-> JwtPayload(user)]

\* the calls are numbered in the order they start
LoginStarts(l) == lpc[l] = "idle" /\ \A q \in LoginReqs : q < l => lpc[q] # "idle"

LoginUnchanged ==
  UNCHANGED <<store, nextId, rpc, rdto, rout, rcause, vpc, vdto, vbody, vresp,
              now, presp, pinfo, fexc, fresp>>

LoginNoUser(l, dto) ==
  /\ LoginStarts(l)
  /\ FindOne(store, dto.email) = NoUser
  /\ lpc' = [lpc EXCEPT ![l] = "done"]
  /\ ldto' = [ldto EXCEPT ![l] = dto]
  /\ lout' = [lout EXCEPT ![l] = LoginNoUserOutcome]
  /\ lwhy' = [lwhy EXCEPT ![l] = "nouser"]
  /\ UNCHANGED <<luser, ltoken>>
  /\ LoginUnchanged

LoginFound(l, dto) ==
  /\ LoginStarts(l)
  /\ FindOne(store, dto.email) # NoUser
  /\ lpc' = [lpc EXCEPT ![l] = "found"]
  /\ ldto' = [ldto EXCEPT ![l] = dto]
  /\ luser' = [luser EXCEPT ![l] = FindOne(store, dto.email)]
  /\ UNCHANGED <<lwhy, lout, ltoken>>
  /\ LoginUnchanged

LoginBadPassword(l) ==
  /\ lpc[l] = "found"
  /\ ~ IsPasswordValid(ldto[l], luser[l])
  /\ lpc' = [lpc EXCEPT ![l] = "done"]
  /\ lout' = [lout EXCEPT ![l] = LoginBadPasswordOutcome]
  /\ lwhy' = [lwhy EXCEPT ![l] = "badpw"]
  /\ UNCHANGED <<ldto, luser, ltoken>>
  /\ LoginUnchanged

LoginToken(l) ==
  /\ lpc[l] = "found"
  /\ IsPasswordValid(ldto[l], luser[l])
  /\ lpc' = [lpc EXCEPT ![l] = "done"]
  /\ lout' = [lout EXCEPT ![l] = LoginSuccess(luser[l])]
  /\ ltoken' = [ltoken EXCEPT ![l] = JwtSign(JwtPayload(luser[l]), now)]
  /\ lwhy' = [lwhy EXCEPT ![l] = "match"]
  /\ UNCHANGED <<ldto, luser>>
  /\ LoginUnchanged

(***************************************************************************)
(* GET /auth/me and GET /users/me behind JwtAuthGuard                      *)
(***************************************************************************)
\* last time of the clock
MaxTime == 3

JwtVerify_IgnoreExpiration(tok, t) ==
  IF tok.sig.key = "none" THEN "NoToken"
  ELSE IF tok.sig # Signature(ServerKey, tok.sub, tok.email, tok.iat, tok.exp)
    THEN "InvalidToken"
  ELSE "Valid"

\* verify(token) at time t: the signature is checked first, then the expiry
JwtVerify(tok, t) ==
  IF tok.sig.key = "none" THEN "NoToken"
  ELSE IF tok.sig # Signature(ServerKey, tok.sub, tok.email, tok.iat, tok.exp)
    THEN "InvalidToken"
  ELSE IF t >= tok.exp THEN "ExpiredToken"
  ELSE "Valid"

\* the tokens login has issued
IssuedTokens == {ltoken[l] : l \in {m \in LoginReqs : lout[m].kind = "AccessToken"}}

\* an issued token whose claims or expiry were altered, the signature kept, and
\* a token signed with another key
TamperedTokens ==
  UNION {{[tok EXCEPT !.sub = id] : id \in {a.id : a \in store} \ {tok.sub}} :
           tok \in IssuedTokens}
    \cup {[tok EXCEPT !.exp = tok.exp + MaxTime] : tok \in IssuedTokens}
    \cup {[tok EXCEPT !.sig.key = OtherKey] : tok \in IssuedTokens}

\* what a client can send as its credential
Credentials == {NoToken, MalformedToken} \cup IssuedTokens \cup TamperedTokens

\* req.user, set from the verified claims
RequestUser(tok) == [userId |-> tok.sub, email |-> tok.email]

\* usersService.findById(req.user.userId)
FindById(s, id) ==
  IF \E a \in s : a.id = id THEN CHOOSE a \in s : a.id = id ELSE NoUser

\* the account as the profile route returns it: name and email only
ProfileBody(user) == [name |-> user.name, email |-> user.email]

NoProfileResponse == [kind |-> "none", status |-> 0, message |-> "", body |-> << >>]
NoProfileInfo == [cred |-> NoToken, at |-> 0, verdict |-> "none", reached |-> FALSE]

\* the guard's denial
Unauthorized ==
  [kind |-> "UnauthorizedException", status |-> 401, message |-> "Unauthorized",
   body |-> << >>]

ProfileOk(user) ==
  [kind |-> "Profile", status |-> 200, message |-> "", body |-> ProfileBody(user)]

GuardAllows_ExpiredPasses(tok, t) == JwtVerify(tok, t) \in {"Valid", "ExpiredToken"}

\* JwtAuthGuard.canActivate: only a token that verifies lets the request through
GuardAllows(tok, t) == JwtVerify(tok, t) = "Valid"

\* getProfile: the guard verifies the credential; the handler runs only when
\* the guard allows it and returns the account of the token's subject
ProfileFetch(tok) ==
  /\ presp' = IF GuardAllows(tok, now)
                THEN ProfileOk(FindById(store, RequestUser(tok).userId))
                ELSE Unauthorized
  /\ pinfo' = [cred |-> tok, at |-> now, verdict |-> JwtVerify(tok, now),
               reached |-> GuardAllows(tok, now)]
  /\ UNCHANGED <<flowVars, valVars, now, ltoken, filVars>>

\* time passes
Tick ==
  /\ now < MaxTime
  /\ now' = now + 1
  /\ UNCHANGED <<flowVars, valVars, ltoken, presp, pinfo, filVars>>

(***************************************************************************)
(* Request bodies of the validation pipeline                               *)
(***************************************************************************)
\* longest name drawn
MaxNameLen == 4
\* longest run of one character class in a drawn password
MaxRun == 4

AbsentV == [t |-> "absent", s |-> <<>>]
NullV == [t |-> "null", s |-> <<>>]
NumberV == [t |-> "number", s |-> <<>>]
Str(s) == [t |-> "string", s |-> s]

Rep(c, n) == [i \in 1..n |-> c]

\* a password of nl letters, nd digits, ns special characters and no other
\* characters ("~" is in none of the three classes)
Blocks(nl, nd, ns, no) == Rep("a", nl) \o Rep("1", nd) \o Rep("!", ns) \o Rep("~", no)

FieldNames == {"name", "email", "password", "role"}
\* Object.keys order of a body
FieldOrder == <<"name", "email", "password", "role">>

NameValues == {AbsentV, NullV, NumberV} \cup {Str(Rep("T", n)) : n \in 0..MaxNameLen}
EmailValues == {AbsentV, NullV, Str(<<>>), Str(<<"n","o","t","-","a","n">>), Str(EmailA)}
PasswordValues ==
  {AbsentV, NullV, NumberV}
    \cup {Str(Blocks(nl, nd, ns, no)) : nl \in 0..MaxRun, nd \in 0..MaxRun,
                                         ns \in 0..MaxRun, no \in 0..1}
RoleValues == {AbsentV, Str(<<"a","d","m","i","n">>)}

Bodies == [name : NameValues, email : EmailValues, password : PasswordValues,
           role : RoleValues]
NoBody == [name |-> AbsentV, email |-> AbsentV, password |-> AbsentV, role |-> AbsentV]

\* Object.keys(object)
Keys(body) == {f \in FieldNames : body[f].t # "absent"}

(***************************************************************************)
(* The declared rules, in the order the decorators are written             *)
(***************************************************************************)
Rule(type, min, cls, groups, message) ==
  [type |-> type, min |-> min, cls |-> cls, groups |-> groups, message |-> message]

CreateUserDtoRules(field) ==
  CASE field = "name" ->
         << Rule("isNotEmpty", 0, {}, {}, "Name cannot be empty"),
            Rule("isString", 0, {}, {}, "Name must be a string"),
            Rule("minLength", MinNameLen, {}, {}, "Name must be at least 3 characters long") >>
    [] field = "email" ->
         << Rule("isNotEmpty", 0, {}, {}, "Email cannot be empty"),
            Rule("isEmail", 0, {}, {}, "Please provide a valid email address") >>
    [] field = "password" ->
         << Rule("isNotEmpty", 0, {}, {}, "Password cannot be empty"),
            Rule("isString", 0, {}, {}, "Password must be a string"),
            Rule("minLength", MinPasswordLen, {}, {},
                 "Password must be at least 8 characters long"),
            Rule("matches", 0, Letters, {}, "Password must contain at least one letter"),
            Rule("matches", 0, Digits, {}, "Password must contain at least one number"),
            Rule("matches", 0, Specials, {},
                 "Password must contain at least one special character") >>
    [] OTHER -> << >>

LoginDtoRules_WithPolicy(field) ==
  CASE field = "email" ->
         << Rule("isEmail", 0, {}, {"existence", "format"}, "Invalid email"),
            Rule("isNotEmpty", 0, {}, {"existence"}, "Email cannot be empty") >>
    [] field = "password" ->
         << Rule("minLength", MinPasswordLen, {}, {"format"},
                 "Password must be at least 8 characters long"),
            Rule("isString", 0, {}, {"existence"}, "Password must be a string"),
            Rule("isNotEmpty", 0, {}, {"existence"}, "Password cannot be empty") >>
    [] OTHER -> << >>

LoginDtoRules(field) ==
  CASE field = "email" ->
         << Rule("isEmail", 0, {}, {"existence", "format"}, "Invalid email"),
            Rule("isNotEmpty", 0, {}, {"existence"}, "Email cannot be empty") >>
    [] field = "password" ->
         << Rule("isString", 0, {}, {"existence"}, "Password must be a string"),
            Rule("isNotEmpty", 0, {}, {"existence"}, "Password cannot be empty") >>
    [] OTHER -> << >>

DtoRules(dto, field) ==
  IF dto = "register" THEN CreateUserDtoRules(field) ELSE LoginDtoRules(field)

(***************************************************************************)
(* ValidationPipe options of bootstrap                                     *)
(***************************************************************************)
PipeGroups == {"existence", "format"}
StopAtFirstError == TRUE
Whitelist == TRUE
ForbidNonWhitelisted_Off == FALSE

ForbidNonWhitelisted == TRUE

(***************************************************************************)
(* class-validator, as the pipe drives it                                  *)
(***************************************************************************)
\* what each decorator checks
RulePasses(rule, v) ==
  CASE rule.type = "isNotEmpty" ->
         v.t \notin {"absent", "null"} /\ ~ (v.t = "string" /\ v.s = <<>>)
    [] rule.type = "isString" -> v.t = "string"
    [] rule.type = "minLength" -> v.t = "string" /\ Len(v.s) >= rule.min
    [] rule.type = "isEmail" -> v.t = "string" /\ IsEmailSyntax(v.s)
    [] rule.type = "matches" -> v.t = "string" /\ HasCharIn(v.s, rule.cls)
    [] OTHER -> TRUE

Reverse(seq) == [i \in 1..Len(seq) |-> seq[Len(seq) + 1 - i]]

\* the decorators of a property are applied bottom-up, so the metadata of the
\* last decorator written is registered, and later run, first
MetadataOrder(rules) == Reverse(rules)

\* validation with groups runs only the decorators that name one of the groups;
\* a decorator without groups is run only when validation names no group
RuleSelected(rule, groups) ==
  IF groups # {} THEN rule.groups \cap groups # {} ELSE TRUE

\* the metadata of a property that the validation run uses
TargetMetadatas(dto, field, groups) ==
  SelectSeq(MetadataOrder(DtoRules(dto, field)), LAMBDA r : RuleSelected(r, groups))

\* error.constraints[type] = message: a later failure of the same type
\* replaces the message, a new type is added behind
PutConstraint(cons, type, message) ==
  IF \E i \in 1..Len(cons) : cons[i].type = type
    THEN [i \in 1..Len(cons) |->
            IF cons[i].type = type THEN [type |-> type, message |-> message] ELSE cons[i]]
    ELSE Append(cons, [type |-> type, message |-> message])

RECURSIVE CustomValidations(_, _, _, _)
\* the rules of one property run in metadata order; with stopAtFirstError a
\* rule is skipped once the property has a failed constraint
CustomValidations(metas, v, i, cons) ==
  IF i > Len(metas) THEN cons
  ELSE IF StopAtFirstError /\ Len(cons) > 0 THEN CustomValidations(metas, v, i + 1, cons)
  ELSE IF RulePasses(metas[i], v) THEN CustomValidations(metas, v, i + 1, cons)
  ELSE CustomValidations(metas, v, i + 1,
                         PutConstraint(cons, metas[i].type, metas[i].message))

WhitelistMessage(field) ==
  CASE field = "name" -> "property name should not exist"
    [] field = "email" -> "property email should not exist"
    [] field = "password" -> "property password should not exist"
    [] OTHER -> "property role should not exist"

\* whitelist with forbidNonWhitelisted: a key of the object without metadata
\* in this run is an error
WhitelistConstraints(dto, body, field, groups) ==
  IF Whitelist /\ ForbidNonWhitelisted /\ field \in Keys(body)
       /\ TargetMetadatas(dto, field, groups) = << >>
    THEN << [type |-> "whitelistValidation", message |-> WhitelistMessage(field)] >>
    ELSE << >>

\* the constraints that fail for one property
PropertyConstraints(dto, body, field, groups) ==
  IF TargetMetadatas(dto, field, groups) = << >>
    THEN WhitelistConstraints(dto, body, field, groups)
    ELSE CustomValidations(TargetMetadatas(dto, field, groups), body[field], 1, << >>)

\* validate(object, options): the ValidationError list, one error per property
\* with failed constraints
ValidateBody(dto, body) ==
  SelectSeq([i \in 1..Len(FieldOrder) |->
               [property |-> FieldOrder[i],
                constraints |-> PropertyConstraints(dto, body, FieldOrder[i], PipeGroups)]],
            LAMBDA e : e.constraints # << >>)

(***************************************************************************)
(* ValidationExceptionFilter.catch on the pipe's BadRequestException       *)
(***************************************************************************)
\* Object.values(error.constraints)
ConstraintValues(cons) == [i \in 1..Len(cons) |-> cons[i].message]

\* validationErrors[error.property] = Object.values(error.constraints)
ValidationErrorsOf(errors) ==
  [f \in {errors[i].property : i \in 1..Len(errors)} |->
     LET last == CHOOSE i \in 1..Len(errors) :
                   /\ errors[i].property = f
                   /\ \A j \in 1..Len(errors) : errors[j].property = f => j <= i
     IN ConstraintValues(errors[last].constraints)]

NoResponse == [passed |-> FALSE, statusCode |-> 0, error |-> "", validationErrors |-> << >>]

\* the pipe passes the body on when there is no error, otherwise throws
\* BadRequestException(errors), which the filter shapes
PipeResponse(errors) ==
  IF errors = << >>
    THEN [passed |-> TRUE, statusCode |-> 0, error |-> "", validationErrors |-> << >>]
    ELSE [passed |-> FALSE, statusCode |-> 400, error |-> "Bad Request",
          validationErrors |-> ValidationErrorsOf(errors)]

ValUnchanged == UNCHANGED <<flowVars, tokVars, filVars>>

\* POST /users/register: the pipe validates the body against CreateUserDto
PipeRegister ==
  /\ vpc = "input"
  /\ vdto = "register"
  /\ vresp' = PipeResponse(ValidateBody("register", vbody))
  /\ vpc' = "done"
  /\ UNCHANGED <<vdto, vbody>>
  /\ ValUnchanged

\* POST /auth/login: the pipe validates the body against LoginDto
PipeLogin ==
  /\ vpc = "input"
  /\ vdto = "login"
  /\ vresp' = PipeResponse(ValidateBody("login", vbody))
  /\ vpc' = "done"
  /\ UNCHANGED <<vdto, vbody>>
  /\ ValUnchanged

NoException ==
  [kind |-> "none", statusCode |-> 0, error |-> "", errors |-> << >>, messages |-> << >>,
   message |-> ""]

NoFilterResponse ==
  [shaped |-> FALSE, statusCode |-> 0, error |-> "", validationErrors |-> << >>,
   message |-> ""]

(***************************************************************************)
(* POST /users/register as a request: the pipe, then the handler           *)
(***************************************************************************)
\* the request bodies sent to the route
FrameBodies ==
  { NoBody,
    [NoBody EXCEPT !.role = Str(<<"a","d","m","i","n">>)],
    [NoBody EXCEPT !.name = Str(Rep("T", MinNameLen)), !.email = Str(EmailA),
                   !.password = Str(Blocks(4, 3, 1, 0))] }

\* transform: the DTO instance built from the body; a missing or non-string
\* field has no text
BodyDto(body) ==
  [name |-> IF body.name.t = "string" THEN body.name.s ELSE << >>,
   email |-> IF body.email.t = "string" THEN body.email.s ELSE << >>,
   password |-> IF body.password.t = "string" THEN body.password.s ELSE << >>]

\* the store refuses a document without name, email or password
SchemaAccepts(dto) == dto.name # << >> /\ dto.email # << >> /\ dto.password # << >>
SchemaValidationError == [cls |-> "ValidationError", message |-> "User validation failed"]

\* the pipe throws before the handler is called: register does not run
RegisterRejected(r, body) ==
  /\ RegStarts(r)
  /\ ValidateBody("register", body) # << >>
  /\ vpc' = "done"
  /\ vdto' = "register"
  /\ vbody' = body
  /\ vresp' = PipeResponse(ValidateBody("register", body))
  /\ rpc' = [rpc EXCEPT ![r] = "done"]
  /\ rout' = [rout EXCEPT ![r] = HttpOutcome("BadRequestException", 400, "Bad Request")]
  /\ rcause' = [rcause EXCEPT ![r] = "rejected"]
  /\ UNCHANGED <<store, nextId, rdto, lpc, ldto, luser, lout, lwhy, tokVars, filVars>>

\* the pipe passes the body on and register runs with the transformed DTO:
\* findOne is called, then save unless an account was found
RegisterHandled(r, body) ==
  /\ RegStarts(r)
  /\ ValidateBody("register", body) = << >>
  /\ vpc' = "done"
  /\ vdto' = "register"
  /\ vbody' = body
  /\ vresp' = PipeResponse(ValidateBody("register", body))
  /\ rdto' = [rdto EXCEPT ![r] = BodyDto(body)]
  /\ rpc' = [rpc EXCEPT ![r] =
               IF FindOne(store, BodyDto(body).email) = NoUser /\ SchemaAccepts(BodyDto(body))
                 THEN "checked" ELSE "done"]
  /\ rout' = [rout EXCEPT ![r] =
                IF FindOne(store, BodyDto(body).email) # NoUser
                  THEN RegisterCatch(ConflictException)
                ELSE IF ~ SchemaAccepts(BodyDto(body))
                  THEN RegisterCatch(SchemaValidationError)
                ELSE NoOutcome]
  /\ rcause' = [rcause EXCEPT ![r] =
                  IF FindOne(store, BodyDto(body).email) # NoUser THEN "conflict"
                  ELSE IF ~ SchemaAccepts(BodyDto(body)) THEN "savefail"
                  ELSE "none"]
  /\ UNCHANGED <<store, nextId, lpc, ldto, luser, lout, lwhy, tokVars, filVars>>

(***************************************************************************)
(* ValidationExceptionFilter.catch on any BadRequestException              *)
(***************************************************************************)
\* longest list of plain-string messages drawn
MaxMessages == 2

\* the messages the decorators of the two DTOs declare
RuleMessages ==
  UNION {{DtoRules(dto, f)[i].message : i \in 1..Len(DtoRules(dto, f))} :
           dto \in {"register", "login"}, f \in FieldNames}

\* exception.getResponse(): { statusCode, message, error }, where message is a
\* ValidationError[], a string[] or a string
ObjectsException(errors) ==
  [kind |-> "objects", statusCode |-> 400, error |-> "Bad Request", errors |-> errors,
   messages |-> << >>, message |-> ""]

StringsException(messages) ==
  [kind |-> "strings", statusCode |-> 400, error |-> "Bad Request", errors |-> << >>,
   messages |-> messages, message |-> ""]

TextException(message) ==
  [kind |-> "text", statusCode |-> 400, error |-> "Bad Request", errors |-> << >>,
   messages |-> << >>, message |-> message]

\* the BadRequestExceptions handed to the filter: the pipe's error objects,
\* lists of plain messages, and register's 'Could not register user'
FilterInputs ==
  {ObjectsException(errors) :
     errors \in {ValidateBody(dto, body) : dto \in {"register", "login"}, body \in Bodies}
                  \ {<< >>}}
    \cup {StringsException(m) : m \in UNION {[1..n -> RuleMessages] : n \in 1..MaxMessages}}
    \cup {TextException(RegistrationFailed.message)}

\* error.match(/^([a-zA-Z0-9]+)/)[1].toLowerCase(): the leading run of letters
\* and digits of the message, in lower case; 'general' without such a run
LeadingWord(msg) ==
  CASE msg \in {"Name cannot be empty", "Name must be a string",
                "Name must be at least 3 characters long"} -> "name"
    [] msg = "Email cannot be empty" -> "email"
    [] msg = "Please provide a valid email address" -> "please"
    [] msg = "Invalid email" -> "invalid"
    [] msg \in {"Password cannot be empty", "Password must be a string",
                "Password must be at least 8 characters long",
                "Password must contain at least one letter",
                "Password must contain at least one number",
                "Password must contain at least one special character"} -> "password"
    [] msg \in {WhitelistMessage(f) : f \in FieldNames} -> "property"
    [] OTHER -> "general"

\* validationErrors[field].push(error) for each message in turn
GroupByLeadingWord(messages) ==
  [k \in {LeadingWord(messages[i]) : i \in 1..Len(messages)} |->
     SelectSeq(messages, LAMBDA m : LeadingWord(m) = k)]

ShapedResponse(exc, validationErrors) ==
  [shaped |-> TRUE, statusCode |-> exc.statusCode,
   error |-> IF exc.error # "" THEN exc.error ELSE "Bad Request",
   validationErrors |-> validationErrors, message |-> ""]

\* message is an array of objects with a property field
FilterCatchObjects ==
  /\ fexc.kind = "objects"
  /\ fresp = NoFilterResponse
  /\ fresp' = ShapedResponse(fexc, ValidationErrorsOf(fexc.errors))
  /\ UNCHANGED <<flowVars, valVars, tokVars, fexc>>

\* message is an array of strings
FilterCatchStrings ==
  /\ fexc.kind = "strings"
  /\ fresp = NoFilterResponse
  /\ fresp' = ShapedResponse(fexc, GroupByLeadingWord(fexc.messages))
  /\ UNCHANGED <<flowVars, valVars, tokVars, fexc>>

\* message is not an array: the original response is returned
FilterCatchPassThrough ==
  /\ fexc.kind = "text"
  /\ fresp = NoFilterResponse
  /\ fresp' = [shaped |-> FALSE, statusCode |-> fexc.statusCode, error |-> fexc.error,
               validationErrors |-> << >>, message |-> fexc.message]
  /\ UNCHANGED <<flowVars, valVars, tokVars, fexc>>

(***************************************************************************)
(* Specifications                                                          *)
(***************************************************************************)
FilterInit ==
  /\ fexc = NoException
  /\ fresp = NoFilterResponse

TokenInit ==
  /\ now = 0
  /\ ltoken = [l \in LoginReqs |-> NoToken]
  /\ presp = NoProfileResponse
  /\ pinfo = NoProfileInfo

FlowInit ==
  /\ store = {}
  /\ nextId = 1
  /\ rpc = [r \in RegReqs |-> "idle"]
  /\ rdto = [r \in RegReqs |-> NoRegisterDto]
  /\ rout = [r \in RegReqs |-> NoOutcome]
  /\ rcause = [r \in RegReqs |-> "none"]
  /\ lpc = [l \in LoginReqs |-> "idle"]
  /\ ldto = [l \in LoginReqs |-> NoLoginDto]
  /\ luser = [l \in LoginReqs |-> NoUser]
  /\ lout = [l \in LoginReqs |-> NoOutcome]
  /\ lwhy = [l \in LoginReqs |-> "none"]

Init ==
  /\ FlowInit
  /\ TokenInit
  /\ FilterInit
  /\ vpc = "off"
  /\ vdto = "register"
  /\ vbody = NoBody
  /\ vresp = NoResponse

InitValidation ==
  /\ FlowInit
  /\ TokenInit
  /\ FilterInit
  /\ vpc = "input"
  /\ vdto \in {"register", "login"}
  /\ vbody \in Bodies
  /\ vresp = NoResponse

Next ==
  \/ \E r \in RegReqs, dto \in RegisterDtos, e \in StoreFailures : RegisterFindFails(r, dto, e)
  \/ \E r \in RegReqs, dto \in RegisterDtos : RegisterConflict(r, dto)
  \/ \E r \in RegReqs, dto \in RegisterDtos : RegisterPassCheck(r, dto)
  \/ \E r \in RegReqs, salt \in Salts : RegisterSaveOk(r, salt)
  \/ \E r \in RegReqs : RegisterSaveDup(r)
  \/ \E r \in RegReqs, e \in StoreFailures : RegisterSaveFails(r, e)
  \/ \E l \in LoginReqs, dto \in LoginDtos : LoginNoUser(l, dto)
  \/ \E l \in LoginReqs, dto \in LoginDtos : LoginFound(l, dto)
  \/ \E l \in LoginReqs : LoginBadPassword(l)
  \/ \E l \in LoginReqs : LoginToken(l)

NextValidation == PipeRegister \/ PipeLogin

\* stores that registrations have produced before the tokens are used
SeedStores ==
  { {},
    {NewUserDoc([name |-> NameT, email |-> EmailA, password |-> PwWeak], 1, "x")},
    {NewUserDoc([name |-> NameT, email |-> EmailA, password |-> PwWeak], 1, "x"),
     NewUserDoc([name |-> NameTest, email |-> EmailB, password |-> PwStrong], 2, "y")} }

InitToken ==
  /\ store \in SeedStores
  /\ nextId = Cardinality(store) + 1
  /\ rpc = [r \in RegReqs |-> "idle"]
  /\ rdto = [r \in RegReqs |-> NoRegisterDto]
  /\ rout = [r \in RegReqs |-> NoOutcome]
  /\ rcause = [r \in RegReqs |-> "none"]
  /\ lpc = [l \in LoginReqs |-> "idle"]
  /\ ldto = [l \in LoginReqs |-> NoLoginDto]
  /\ luser = [l \in LoginReqs |-> NoUser]
  /\ lout = [l \in LoginReqs |-> NoOutcome]
  /\ lwhy = [l \in LoginReqs |-> "none"]
  /\ TokenInit
  /\ FilterInit
  /\ vpc = "off"
  /\ vdto = "register"
  /\ vbody = NoBody
  /\ vresp = NoResponse

NextToken ==
  \/ \E l \in LoginReqs, dto \in LoginDtos : LoginNoUser(l, dto)
  \/ \E l \in LoginReqs, dto \in LoginDtos : LoginFound(l, dto)
  \/ \E l \in LoginReqs : LoginBadPassword(l)
  \/ \E l \in LoginReqs : LoginToken(l)
  \/ \E tok \in Credentials : ProfileFetch(tok)
  \/ Tick

Spec == Init /\ [][Next]_vars

SpecValidation == InitValidation /\ [][NextValidation]_vars

SpecToken == InitToken /\ [][NextToken]_vars

InitFilter ==
  /\ FlowInit
  /\ TokenInit
  /\ fexc \in FilterInputs
  /\ fresp = NoFilterResponse
  /\ vpc = "off"
  /\ vdto = "register"
  /\ vbody = NoBody
  /\ vresp = NoResponse

NextFrame ==
  \/ \E r \in RegReqs, dto \in RegisterDtos, e \in StoreFailures : RegisterFindFails(r, dto, e)
  \/ \E r \in RegReqs, dto \in RegisterDtos : RegisterConflict(r, dto)
  \/ \E r \in RegReqs, dto \in RegisterDtos : RegisterPassCheck(r, dto)
  \/ \E r \in RegReqs, salt \in Salts : RegisterSaveOk(r, salt)
  \/ \E r \in RegReqs : RegisterSaveDup(r)
  \/ \E r \in RegReqs, e \in StoreFailures : RegisterSaveFails(r, e)
  \/ \E r \in RegReqs, body \in FrameBodies : RegisterRejected(r, body)
  \/ \E r \in RegReqs, body \in FrameBodies : RegisterHandled(r, body)
  \/ \E l \in LoginReqs, dto \in LoginDtos : LoginNoUser(l, dto)
  \/ \E l \in LoginReqs, dto \in LoginDtos : LoginFound(l, dto)
  \/ \E l \in LoginReqs : LoginBadPassword(l)
  \/ \E l \in LoginReqs : LoginToken(l)
  \/ \E tok \in Credentials : ProfileFetch(tok)

SpecFrame == Init /\ [][NextFrame]_vars

NextFilter == FilterCatchObjects \/ FilterCatchStrings \/ FilterCatchPassThrough

SpecFilter == InitFilter /\ [][NextFilter]_vars

(***************************************************************************)
(* Properties of the flows (checked under Spec)                            *)
(***************************************************************************)
\* C1: in every reachable state no two stored accounts have the same email,
\* also when two register calls for one email both pass the findOne check
\* before either saves
C1_EmailUnique == \A a, b \in store : a.email = b.email => a = b

\* two calls for one email were both past the check; one saved, the other's
\* save was refused
C1_Witness ==
  \E r, q \in RegReqs :
    /\ r # q
    /\ rdto[r].email = rdto[q].email
    /\ rcause[r] = "saved"
    /\ rcause[q] = "dupkey"

\* the account of email e is the one call q created
HoldsOnly(s, q) ==
  /\ \E a \in s :
       /\ a.email = rdto[q].email
       /\ a.name = rdto[q].name
       /\ \E salt \in Salts : a.password = BcryptHash(rdto[q].password, salt)
  /\ Cardinality({a \in s : a.email = rdto[q].email}) = 1

\* C2: when a register call for email e starts after the only earlier call for
\* e has finished, and no store call fails, the earlier call has succeeded and
\* the later one ends in DuplicateEmail whatever its name and password; the
\* store keeps exactly one account for e, with the earlier call's name and
\* password hash
C2_SecondRegisterIsDuplicate ==
  [][\A r, q \in RegReqs :
       ( /\ r # q
         /\ rpc[r] = "idle" /\ rpc'[r] # "idle"
         /\ rpc[q] = "done"
         /\ rdto[q].email = rdto'[r].email
         /\ \A p \in RegReqs \ {r, q} : rpc[p] # "idle" => rdto[p].email # rdto[q].email
         /\ rcause[q] \notin {"findfail", "savefail"}
         /\ rcause'[r] # "findfail" )
       => /\ rout[q] = RegisterSuccess
          /\ rpc'[r] = "done"
          /\ rout'[r] = DuplicateEmail
          /\ store' = store
          /\ HoldsOnly(store', q)]_vars

C2_Witness ==
  \E r, q \in RegReqs :
    /\ rpc[q] = "done" /\ rpc[r] = "done"
    /\ rdto[r].email = rdto[q].email
    /\ rdto[r].name # rdto[q].name
    /\ rdto[r].password # rdto[q].password
    /\ rout[q] = RegisterSuccess
    /\ rcause[r] = "conflict"
    /\ rout[r] = DuplicateEmail
    /\ HoldsOnly(store, q)

C4_LoginFailuresIndistinguishable ==
  \A l, m \in LoginReqs :
    (lwhy[l] = "nouser" /\ lwhy[m] = "badpw") => lout[l] = lout[m]

C4_Witness ==
  \E l, m \in LoginReqs : lwhy[l] = "nouser" /\ lwhy[m] = "badpw"

\* an account of the store that the credentials match
Matching(s, dto) ==
  {a \in s : a.email = dto.email /\ BcryptCompare(dto.password, a.password)}

C6_SaveDuplicateIsConflict ==
  \A r \in RegReqs : rcause[r] = "dupkey" => rout[r] = DuplicateEmail

\* C7: a register call in which findOne or save fails for a reason other than
\* a duplicate email ends in RegistrationFailed with the fixed message
\* 'Could not register user', which is no part of the store's error, and the
\* call adds no account to the store
C7_StoreFailureIsGeneric ==
  /\ [](\A r \in RegReqs :
          rcause[r] \in {"findfail", "savefail"}
            => /\ rout[r] = RegistrationFailed
               /\ rout[r].message = "Could not register user"
               /\ rout[r].message \notin {e.message : e \in StoreFailures})
  /\ [][\A r \in RegReqs :
          (rcause[r] = "none" /\ rcause'[r] \in {"findfail", "savefail"})
            => store' = store]_vars

C7_Witness ==
  \E r, q \in RegReqs : rcause[r] = "findfail" /\ rcause[q] = "savefail"

(***************************************************************************)
(* Properties of the validation pipeline (checked under SpecValidation)    *)
(***************************************************************************)
\* the error list of a field in the response
ErrorList(field) ==
  IF field \in DOMAIN vresp.validationErrors THEN vresp.validationErrors[field] ELSE << >>

InList(msg, list) == \E i \in 1..Len(list) : list[i] = msg

\* C8: for a register body whose name is the empty string, the error list of
\* 'name' holds the existence message 'Name cannot be empty' and nothing else
C8_EmptyNameOnlyExistence ==
  (vpc = "done" /\ vdto = "register" /\ vbody.name = Str(<< >>))
    => ErrorList("name") = << "Name cannot be empty" >>

\* the format rules of the password field of CreateUserDto
PasswordFormatRules ==
  {r \in {CreateUserDtoRules("password")[i] : i \in 1..Len(CreateUserDtoRules("password"))} :
     r.type \in {"minLength", "matches"}}

\* C9: for a register body whose password is a non-empty string, the error
\* list of 'password' holds the message of every format rule the password
\* violates
C9_PasswordRulesNotShortCircuited ==
  (vpc = "done" /\ vdto = "register" /\ vbody.password.t = "string"
     /\ vbody.password.s # << >>)
    => \A r \in PasswordFormatRules :
         ~ RulePasses(r, vbody.password) => InList(r.message, ErrorList("password"))

\* C10: a register body with a valid name and email whose password violates
\* exactly one policy rule is rejected as a validation failure, and the error
\* list of 'password' includes that rule's message
C10_SingleRuleViolationReported ==
  \A r \in PasswordFormatRules :
    ( /\ vpc = "done" /\ vdto = "register"
      /\ vbody.name.t = "string" /\ NameOK(vbody.name.s)
      /\ vbody.email.t = "string" /\ IsEmailSyntax(vbody.email.s)
      /\ vbody.role = AbsentV
      /\ vbody.password.t = "string"
      /\ ~ RulePasses(r, vbody.password)
      /\ \A o \in PasswordFormatRules \ {r} : RulePasses(o, vbody.password) )
    => /\ ~ vresp.passed
       /\ vresp.statusCode = 400
       /\ InList(r.message, ErrorList("password"))

\* the fields a DTO declares
DeclaredFields(dto) == {f \in FieldNames : DtoRules(dto, f) # << >>}

\* a declared field whose value breaks one of the rules written on it
FailsOwnRules(dto, body, f) ==
  \E i \in 1..Len(DtoRules(dto, f)) : ~ RulePasses(DtoRules(dto, f)[i], body[f])

\* C11: every declared field that fails its own rules has an entry in the
\* error set, whatever the other fields are
C11_EveryFailingFieldReported ==
  vpc = "done"
    => \A f \in DeclaredFields(vdto) :
         FailsOwnRules(vdto, vbody, f) => f \in DOMAIN vresp.validationErrors

\* the keys of a body that the DTO does not declare
UnknownKeys(dto, body) == Keys(body) \ DeclaredFields(dto)

\* C12: a body with a field the DTO does not declare is rejected as a whole
\* with a validation failure that names the field, also when every declared
\* field is valid; the handler is not reached and no account is created
C12_UnknownFieldRejected ==
  (vpc = "done" /\ UnknownKeys(vdto, vbody) # {})
    => /\ ~ vresp.passed
       /\ vresp.statusCode = 400
       /\ UnknownKeys(vdto, vbody) \subseteq DOMAIN vresp.validationErrors
       /\ store = {}
       /\ \A r \in RegReqs : rpc[r] = "idle"
       /\ \A l \in LoginReqs : lpc[l] = "idle"

\* a login body whose declared fields are valid and that carries 'role'
C12_Witness ==
  /\ vpc = "done" /\ vdto = "login"
  /\ vbody.email = Str(EmailA)
  /\ vbody.password.t = "string" /\ vbody.password.s # << >>
  /\ vbody.name = AbsentV
  /\ vbody.role # AbsentV
  /\ ~ vresp.passed
  /\ DOMAIN vresp.validationErrors = {"role"}

\* C13: login validation puts no password-policy rule on the password: a
\* non-empty string password never has an entry in the error set, and with a
\* valid email and no undeclared field the body passes to login
C13_LoginPasswordNoPolicy ==
  (vpc = "done" /\ vdto = "login" /\ vbody.password.t = "string"
     /\ vbody.password.s # << >>)
    => /\ "password" \notin DOMAIN vresp.validationErrors
       /\ (vbody.email.t = "string" /\ IsEmailSyntax(vbody.email.s)
             /\ UnknownKeys("login", vbody) = {})
            => vresp.passed

\* a password that breaks the length, digit and special-character rules passes
C13_Witness ==
  /\ vpc = "done" /\ vdto = "login"
  /\ vbody.password = Str(<<"a">>)
  /\ vbody.email = Str(EmailA)
  /\ vresp.passed

(***************************************************************************)
(* Properties of the tokens and the profile routes (checked under          *)
(* SpecToken)                                                              *)
(***************************************************************************)
\* what the guard last answered for a token that login issued
IssuedPresented == pinfo.verdict # "none" /\ pinfo.cred \in IssuedTokens

\* C14: a token issued by login verifies at every time before its expiry and
\* is rejected as expired at every time from its expiry on, the clock never
\* runs backwards so it is never accepted again, and an issued token whose
\* claims, expiry or signing key were altered is rejected with InvalidToken at
\* any time; the guard's answers follow the same rule
C14_TokenLifecycle ==
  /\ [](/\ \A tok \in IssuedTokens :
             /\ now < tok.exp => JwtVerify(tok, now) = "Valid"
             /\ now >= tok.exp => JwtVerify(tok, now) = "ExpiredToken"
             /\ tok.exp = tok.iat + TokenTtl
        /\ \A tok \in TamperedTokens : JwtVerify(tok, now) = "InvalidToken"
        /\ IssuedPresented =>
             /\ pinfo.reached <=> pinfo.at < pinfo.cred.exp
             /\ ~ pinfo.reached => pinfo.verdict = "ExpiredToken"
        /\ (pinfo.verdict # "none" /\ pinfo.cred \in TamperedTokens) =>
             pinfo.verdict = "InvalidToken" /\ ~ pinfo.reached)
  /\ [][now' >= now /\ \A l \in LoginReqs :
                        lout[l].kind = "AccessToken" => ltoken'[l] = ltoken[l]]_vars

C14_Witness ==
  /\ lout[1].kind = "AccessToken"
  /\ pinfo.cred = ltoken[1]
  /\ pinfo.verdict = "ExpiredToken"
  /\ pinfo.at >= ltoken[1].exp
  /\ ltoken[1].iat > 0
  /\ presp = Unauthorized

\* C15: a profile request without a token, with a malformed token or with an
\* expired token gets the same denial (401 Unauthorized, no body); findById is
\* not reached and no account data is returned
C15_ProfileGuarded ==
  (/\ pinfo.verdict # "none"
   /\ \/ pinfo.cred = NoToken
      \/ pinfo.cred = MalformedToken
      \/ pinfo.cred \in IssuedTokens /\ pinfo.at >= pinfo.cred.exp)
    => /\ presp = Unauthorized
       /\ presp.status = 401
       /\ presp.body = << >>
       /\ ~ pinfo.reached

C15_Witness ==
  /\ pinfo.cred = MalformedToken
  /\ pinfo.verdict = "InvalidToken"
  /\ presp = Unauthorized
  /\ ~ pinfo.reached
  /\ IssuedTokens # {}
  /\ now > 0

\* the account that the login which issued the presented token authenticated
IssuedFor(tok) == {luser[l] : l \in {m \in LoginReqs : lout[m].kind = "AccessToken"
                                                       /\ ltoken[m] = tok}}

OwnerField(msg) ==
  CHOOSE f \in FieldNames :
    \E dto \in {"register", "login"} :
      \E i \in 1..Len(DtoRules(dto, f)) : DtoRules(dto, f)[i].message = msg

\* the field-keyed error set the messages stand for
ExpectedOfStrings(messages) ==
  [f \in {OwnerField(messages[i]) : i \in 1..Len(messages)} |->
     SelectSeq(messages, LAMBDA m : OwnerField(m) = f)]

ExpectedOfObjects(errors) ==
  [f \in {errors[i].property : i \in 1..Len(errors)} |->
     ConstraintValues(errors[CHOOSE i \in 1..Len(errors) : errors[i].property = f].constraints)]

\* C17: whatever form the validation messages arrive in, the shaped response
\* has one key per failed input field, named after the field, holding exactly
\* that field's messages (so 'Please provide a valid email address' is under
\* 'email'); a BadRequest whose message is not an array is passed through
C17_FieldKeyedShaping ==
  fresp # NoFilterResponse
    => CASE fexc.kind = "objects" ->
              /\ fresp.shaped
              /\ fresp.statusCode = 400
              /\ fresp.validationErrors = ExpectedOfObjects(fexc.errors)
              /\ \A f \in DOMAIN fresp.validationErrors : fresp.validationErrors[f] # << >>
         [] fexc.kind = "strings" ->
              /\ fresp.shaped
              /\ fresp.statusCode = 400
              /\ fresp.validationErrors = ExpectedOfStrings(fexc.messages)
         [] OTHER ->
              /\ ~ fresp.shaped
              /\ fresp.statusCode = fexc.statusCode
              /\ fresp.error = fexc.error
              /\ fresp.message = fexc.message

(***************************************************************************)
(* Frame of the store (checked under SpecFrame)                            *)
(***************************************************************************)
\* a body that breaks a rule of CreateUserDto or carries an undeclared field
InvalidRegisterInput(body) ==
  \/ UnknownKeys("register", body) # {}
  \/ \E f \in DeclaredFields("register") : FailsOwnRules("register", body, f)

\* a step in which register call r saves its account, and nothing else changes
\* in the store
SuccessfulRegisterStep(r) ==
  /\ rout[r] # RegisterSuccess
  /\ rout'[r] = RegisterSuccess
  /\ \E a \in store' \ store :
       /\ store' = store \cup {a}
       /\ a.email = rdto[r].email
       /\ \A b \in store : b.id # a.id

\* C18: the store changes only in the step of a successful register, which
\* adds exactly one account and leaves the others as they are; logins, profile
\* fetches, rejected requests and registers ending in DuplicateEmail or
\* RegistrationFailed leave it unchanged; and a register request with invalid
\* input is stopped by validation, so register and its store query do not run
C18_StoreFrame ==
  [][/\ store' # store => \E r \in RegReqs : SuccessfulRegisterStep(r)
     /\ \A r \in RegReqs :
          (rout'[r] # rout[r] /\ rout'[r] # RegisterSuccess) => store' = store
     /\ (lpc' # lpc \/ presp' # presp \/ pinfo' # pinfo) => store' = store
     /\ \A r \in RegReqs, body \in FrameBodies :
          (InvalidRegisterInput(body) /\ (RegisterRejected(r, body) \/ RegisterHandled(r, body)))
            => RegisterRejected(r, body)]_vars

====
